---- MODULE Spec2Model ----
(***************************************************************************)
(* ObjectSlot: a generational slot pool with reference-counted handles.   *)
(* The pool (ObjectSlotBase / ObjectSlot) and the SlotRef wrapper are      *)
(* modelled as one state machine: every public operation is one action.    *)
(***************************************************************************)
EXTENDS Integers, Sequences, FiniteSets, TLC

\* ---------------------------------------------------------------- bounds
MaxOps == 5          \* the client program performs at most this many operations
MaxGen == 1          \* Create is not attempted when it would reuse an index beyond this generation
NumRefs == 2         \* number of SlotRef variables of the client program
NumValues == 2       \* element values 1..NumValues
MaxHooks == 2        \* number of distinct callables handed to SetOnDestroy
MaxCapArg == 2       \* arguments of SetMaxCapacity / Reserve are 0..MaxCapArg

\* ------------------------------------------------------- program constants
\* SlotHandle::INVALID_INDEX is UINT32_MAX; the model checker's integers are
\* 32-bit signed, so the sentinel is the largest representable index.  It is
\* only ever compared with m_data.size(), which it exceeds in both readings.
INVALID_INDEX == 2147483647

Refs == 1..NumRefs
Values == 1..NumValues
Hooks == 1..MaxHooks
NoCallback == 0      \* an empty std::function (nullptr)
NullSlot == "nullptr"
ThePool == "pool"    \* ObjectSlot<T>::GetInstance(): the one pool of the element type

VARIABLES
    m_data,                \* std::vector<T>
    m_generations,         \* std::vector<uint32_t>
    m_alive,               \* std::vector<bool>
    m_refCounts,           \* std::vector<uint32_t>
    m_onDestroyCallbacks,  \* std::vector<OnDestroyCallback>, NoCallback or a hook id
    m_freeList,            \* std::queue<uint32_t>
    m_count,               \* size_t
    m_maxCapacity,         \* size_t
    reserved,              \* storage the vectors are guaranteed to hold without reallocating
    refs,                  \* the client's SlotRef variables
    nextHook,              \* next callable the client hands to SetOnDestroy
    op,                    \* name of the last operation
    ret,                   \* what the last operation did: the kind of SlotRef Create
                           \* returned, whether a binding was released or counted
    calls,                 \* hook invocations made by the last operation, in order
    fired,                 \* number of invocations of each callable so far
    visits,                \* calls of the ForEach callback made by the last operation, in order
    saved,                 \* a SlotHandle the client keeps: h = r.GetHandle()
    fate,                  \* what has happened to the slot of saved since then
    cleared,               \* Clear has been called at least once
    weak,                  \* the client's WeakSlotRef variable
    expired,               \* the slot weak was derived from has been removed since
    asserted,              \* every assert() evaluated so far held
    lastRemoved,           \* per index: the generation of the handle of the occupant
                           \* removed last since the index was appended ({} if none)
    ops                    \* number of operations performed so far

poolVars == <<m_data, m_generations, m_alive, m_refCounts, m_onDestroyCallbacks,
              m_freeList, m_count, m_maxCapacity, reserved>>
vars == <<m_data, m_generations, m_alive, m_refCounts, m_onDestroyCallbacks,
          m_freeList, m_count, m_maxCapacity, reserved, refs, nextHook, op, ret, calls,
          fired, visits, saved, fate, cleared, weak, expired, asserted, lastRemoved, ops>>

\* ------------------------------------------------------------- SlotHandle
Handle(i, g) == [index |-> i, generation |-> g]
Invalid == Handle(INVALID_INDEX, 0)

\* --------------------------------------------------------------- helpers
Max(a, b) == IF a >= b THEN a ELSE b
InQueue(q, i) == \E k \in 1..Len(q) : q[k] = i
Occurrences(q, i) == Cardinality({k \in 1..Len(q) : q[k] = i})
Take(s, n) == SubSeq(s, 1, n)

\* The pool as one value; the log of hook invocations travels with it.
Pool == [data |-> m_data, generations |-> m_generations, alive |-> m_alive,
         refCounts |-> m_refCounts, callbacks |-> m_onDestroyCallbacks,
         freeList |-> m_freeList, count |-> m_count,
         maxCapacity |-> m_maxCapacity, reserved |-> reserved,
         calls |-> << >>, removed |-> {}, visits |-> << >>, asserted |-> TRUE]

Size(p) == Len(p.data)
Capacity(p) == Len(p.data)
Count(p) == p.count

IsValidHandle(p, h) ==
    IF h.index >= Len(p.data) THEN FALSE
    ELSE IF ~p.alive[h.index + 1] THEN FALSE
    ELSE IF p.generations[h.index + 1] # h.generation THEN FALSE
    ELSE TRUE

Get(p, h) == IF ~IsValidHandle(p, h) THEN 0 ELSE p.data[h.index + 1]

GetRefCount(p, h) == IF ~IsValidHandle(p, h) THEN 0 ELSE p.refCounts[h.index + 1]

\* A capacity check that still admits one element at the limit.
CanCreate_AtLimit(p) == IF p.maxCapacity = 0 THEN TRUE ELSE p.count <= p.maxCapacity

CanCreate(p) == IF p.maxCapacity = 0 THEN TRUE ELSE p.count < p.maxCapacity

\* m_onDestroyCallbacks[i](): the callable runs; what it could observe of the
\* pool at that moment (the hook stored for its slot included) is recorded
\* with the invocation.
Invoke(p, i) ==
    [p EXCEPT !.calls = Append(@, [index |-> i,
                                   generation |-> p.generations[i + 1],
                                   hook |-> p.callbacks[i + 1],
                                   stored |-> p.callbacks[i + 1],
                                   alive |-> p.alive[i + 1],
                                   refCount |-> p.refCounts[i + 1],
                                   inFreeList |-> InQueue(p.freeList, i)])]

\* An allocation that reuses a freed slot without storing the new element.
AllocateSlot_StaleElement(p, obj) ==
    IF p.freeList # << >>
    THEN LET i == Head(p.freeList)
         IN [handle |-> Handle(i, p.generations[i + 1]),
             pool |-> [p EXCEPT !.freeList = Tail(@),
                                !.alive[i + 1] = TRUE,
                                !.refCounts[i + 1] = 0,
                                !.callbacks[i + 1] = NoCallback,
                                !.count = @ + 1]]
    ELSE [handle |-> Handle(Len(p.data), 0),
          pool |-> [p EXCEPT !.data = Append(@, obj),
                             !.generations = Append(@, 0),
                             !.alive = Append(@, TRUE),
                             !.refCounts = Append(@, 0),
                             !.callbacks = Append(@, NoCallback),
                             !.reserved = Max(@, Len(p.data) + 1),
                             !.count = @ + 1]]

\* An allocation that reuses the index freed last instead of the one freed
\* first.
AllocateSlot_TakesNewest(p, obj) ==
    IF p.freeList # << >>
    THEN LET i == p.freeList[Len(p.freeList)]
         IN [handle |-> Handle(i, p.generations[i + 1]),
             pool |-> [p EXCEPT !.freeList = SubSeq(@, 1, Len(@) - 1),
                                !.data[i + 1] = obj,
                                !.alive[i + 1] = TRUE,
                                !.refCounts[i + 1] = 0,
                                !.callbacks[i + 1] = NoCallback,
                                !.count = @ + 1]]
    ELSE [handle |-> Handle(Len(p.data), 0),
          pool |-> [p EXCEPT !.data = Append(@, obj),
                             !.generations = Append(@, 0),
                             !.alive = Append(@, TRUE),
                             !.refCounts = Append(@, 0),
                             !.callbacks = Append(@, NoCallback),
                             !.reserved = Max(@, Len(p.data) + 1),
                             !.count = @ + 1]]

AllocateSlot(p, obj) ==
    IF p.freeList # << >>
    THEN LET i == Head(p.freeList)
         IN [handle |-> Handle(i, p.generations[i + 1]),
             pool |-> [p EXCEPT !.freeList = Tail(@),
                                !.data[i + 1] = obj,
                                !.alive[i + 1] = TRUE,
                                !.refCounts[i + 1] = 0,
                                !.callbacks[i + 1] = NoCallback,
                                !.count = @ + 1]]
    ELSE [handle |-> Handle(Len(p.data), 0),
          pool |-> [p EXCEPT !.data = Append(@, obj),
                             !.generations = Append(@, 0),
                             !.alive = Append(@, TRUE),
                             !.refCounts = Append(@, 0),
                             !.callbacks = Append(@, NoCallback),
                             !.reserved = Max(@, Len(p.data) + 1),
                             !.count = @ + 1]]

\* A removal that runs the callback only after the slot was marked dead and
\* queued for reuse.
RemoveInternal_HookLate(p, h) ==
    LET i == h.index
        p1 == [p EXCEPT !.alive[i + 1] = FALSE,
                        !.generations[i + 1] = @ + 1,
                        !.refCounts[i + 1] = 0,
                        !.freeList = Append(@, i),
                        !.count = @ - 1,
                        !.removed = @ \cup {h}]
    IN IF p1.callbacks[i + 1] # NoCallback
       THEN [Invoke(p1, i) EXCEPT !.callbacks[i + 1] = NoCallback]
       ELSE p1

\* A removal that forgets to lower the element count.
RemoveInternal_KeepsCount(p, h) ==
    LET i == h.index
        p1 == IF p.callbacks[i + 1] # NoCallback
              THEN [Invoke(p, i) EXCEPT !.callbacks[i + 1] = NoCallback]
              ELSE p
    IN [p1 EXCEPT !.alive[i + 1] = FALSE,
                  !.generations[i + 1] = @ + 1,
                  !.refCounts[i + 1] = 0,
                  !.freeList = Append(@, i),
                  !.removed = @ \cup {h}]

RemoveInternal(p, h) ==
    LET i == h.index
        p1 == IF p.callbacks[i + 1] # NoCallback
              THEN [Invoke(p, i) EXCEPT !.callbacks[i + 1] = NoCallback]
              ELSE p
    IN [p1 EXCEPT !.alive[i + 1] = FALSE,
                  !.generations[i + 1] = @ + 1,
                  !.refCounts[i + 1] = 0,
                  !.freeList = Append(@, i),
                  !.count = @ - 1,
                  !.removed = @ \cup {h}]

\* A release that decrements but never removes.
ReleaseRef_NeverRemoves(p, h) ==
    IF IsValidHandle(p, h) THEN [p EXCEPT !.refCounts[h.index + 1] = @ - 1] ELSE p

\* An increment that trusts the index of the handle it is given.
AddRef_Unchecked(p, h) ==
    IF h.index < Len(p.data) THEN [p EXCEPT !.refCounts[h.index + 1] = @ + 1] ELSE p

AddRef(p, h) ==
    IF IsValidHandle(p, h) THEN [p EXCEPT !.refCounts[h.index + 1] = @ + 1] ELSE p

ReleaseRef(p, h) ==
    IF IsValidHandle(p, h)
    THEN LET p1 == [p EXCEPT !.asserted = @ /\ p.refCounts[h.index + 1] > 0,
                             !.refCounts[h.index + 1] = @ - 1]
         IN IF p1.refCounts[h.index + 1] = 0 THEN RemoveInternal(p1, h) ELSE p1
    ELSE p

SetOnDestroyCallback(p, h, callback) ==
    IF IsValidHandle(p, h) THEN [p EXCEPT !.callbacks[h.index + 1] = callback] ELSE p

ClearOnDestroyCallback(p, h) ==
    IF IsValidHandle(p, h) THEN [p EXCEPT !.callbacks[h.index + 1] = NoCallback] ELSE p

\* A callback loop that walks the slots from the highest index down.
RECURSIVE ClearLoopDown(_, _)
ClearLoopDown(p, n) ==
    IF n = 0 THEN p
    ELSE IF p.alive[n] /\ p.callbacks[n] # NoCallback
         THEN ClearLoopDown(Invoke(p, n - 1), n - 1)
         ELSE ClearLoopDown(p, n - 1)

ClearLoop_Descending(p, i) == ClearLoopDown(p, Len(p.data))

\* Clear(): the loop over the slots, then the reset of every container.
RECURSIVE ClearLoop(_, _)
ClearLoop(p, i) ==
    IF i >= Len(p.data) THEN p
    ELSE IF p.alive[i + 1] /\ p.callbacks[i + 1] # NoCallback
         THEN ClearLoop(Invoke(p, i), i + 1)
         ELSE ClearLoop(p, i + 1)

PoolClear(p) ==
    [ClearLoop(p, 0) EXCEPT !.data = << >>,
                            !.generations = << >>,
                            !.alive = << >>,
                            !.refCounts = << >>,
                            !.callbacks = << >>,
                            !.freeList = << >>,
                            !.count = 0]

PoolReserve(p, capacity) ==
    IF capacity > Len(p.data) THEN [p EXCEPT !.reserved = Max(@, capacity)] ELSE p

\* func(h, m_data[i]): the callback reads the handle and the element it is
\* given and leaves the pool alone.
Visit(p, i) ==
    [p EXCEPT !.visits = Append(@, [handle |-> Handle(i, p.generations[i + 1]),
                                    element |-> p.data[i + 1]])]

\* A loop that hands every slot to the callback, dead or alive.
RECURSIVE ForEachLoop_NoAliveCheck(_, _)
ForEachLoop_NoAliveCheck(p, i) ==
    IF i >= Len(p.data) THEN p
    ELSE ForEachLoop_NoAliveCheck(Visit(p, i), i + 1)

\* ForEach(func): the loop from index i on.
RECURSIVE ForEachLoop(_, _)
ForEachLoop(p, i) ==
    IF i >= Len(p.data) THEN p
    ELSE IF p.alive[i + 1]
         THEN ForEachLoop(Visit(p, i), i + 1)
         ELSE ForEachLoop(p, i + 1)

PoolForEach(p) == ForEachLoop(p, 0)

\* A scan that keeps as many slots as there are alive elements.
NewSize_Count(p, n) == p.count

\* ShrinkToFit(): the scan for the trailing dead slots ...
RECURSIVE NewSize(_, _)
NewSize(p, n) == IF n > 0 /\ ~p.alive[n] THEN NewSize(p, n - 1) ELSE n

\* A rebuild that keeps the indices of the truncated slots.
RebuildFreeList_KeepsAll(q, newSize) == q

\* ... and the rebuild of the free list, in queue order.
RECURSIVE RebuildFreeList(_, _)
RebuildFreeList(q, newSize) ==
    IF q = << >> THEN << >>
    ELSE IF Head(q) < newSize
         THEN <<Head(q)>> \o RebuildFreeList(Tail(q), newSize)
         ELSE RebuildFreeList(Tail(q), newSize)

PoolShrinkToFit(p) ==
    LET newSize == NewSize(p, Len(p.data))
    IN IF newSize = Len(p.data) THEN p
       ELSE [p EXCEPT !.data = Take(@, newSize),
                      !.generations = Take(@, newSize),
                      !.alive = Take(@, newSize),
                      !.refCounts = Take(@, newSize),
                      !.callbacks = Take(@, newSize),
                      !.reserved = newSize,
                      !.freeList = RebuildFreeList(@, newSize)]

\* A Create that hands out the slot without counting the SlotRef it returns.
PoolCreate_NoAddRef(p, obj) ==
    IF ~CanCreate(p) THEN [handle |-> Invalid, slot |-> NullSlot, pool |-> p]
    ELSE LET a == AllocateSlot(p, obj)
         IN [handle |-> a.handle, slot |-> ThePool, pool |-> a.pool]

\* ObjectSlot::Create: the handle it returns is Invalid when creation is refused.
PoolCreate(p, obj) ==
    IF ~CanCreate(p) THEN [handle |-> Invalid, slot |-> NullSlot, pool |-> p]
    ELSE LET a == AllocateSlot(p, obj)
         IN [handle |-> a.handle, slot |-> ThePool, pool |-> AddRef(a.pool, a.handle)]

\* ---------------------------------------------------------------- SlotRef
NoRef == [exists |-> FALSE, m_handle |-> Invalid, m_slot |-> NullSlot]
EmptyRef == [exists |-> TRUE, m_handle |-> Invalid, m_slot |-> NullSlot]
BoundRef(h, s) == [exists |-> TRUE, m_handle |-> h, m_slot |-> s]

RefIsValid(p, ref) == ref.m_slot # NullSlot /\ IsValidHandle(p, ref.m_handle)

UseCount(p, ref) == IF ~RefIsValid(p, ref) THEN 0 ELSE GetRefCount(p, ref.m_handle)

Release(p, ref) ==
    IF ref.m_slot # NullSlot /\ IsValidHandle(p, ref.m_handle)
    THEN ReleaseRef(p, ref.m_handle)
    ELSE p

\* The SlotRef a copy leaves in the destination, and the pool after its AddRef.
CopyRef(other) == BoundRef(other.m_handle, other.m_slot)

\* A copy that forgets to count itself.
CopyAddRef_Uncounted(p, ref) == p

CopyAddRef(p, ref) ==
    IF ref.m_slot # NullSlot /\ IsValidHandle(p, ref.m_handle)
    THEN AddRef(p, ref.m_handle)
    ELSE p

\* The SlotRef a move leaves in the destination ...
MoveRef(other) == BoundRef(other.m_handle, other.m_slot)

\* A move that leaves its source as it was.
MovedFrom_Untouched(other) == other

\* ... and in the source.
MovedFrom(other) == EmptyRef

\* ------------------------------------------------------------ WeakSlotRef
\* A weak reference holds the pool pointer and the handle of the SlotRef it
\* was derived from.
WeakRef(h, s) == [exists |-> TRUE, m_handle |-> h, m_slot |-> s]

WeakOf(ref) == WeakRef(ref.m_handle, ref.m_slot)

\* upgrade(): a bound SlotRef and one more reference if the handle validates,
\* nothing otherwise.
Upgrade(p, w) ==
    IF w.m_slot # NullSlot /\ IsValidHandle(p, w.m_handle)
    THEN [ref |-> BoundRef(w.m_handle, w.m_slot), pool |-> AddRef(p, w.m_handle)]
    ELSE [ref |-> NoRef, pool |-> p]

\* What an operation did with a binding.
Released(p, ref) == IF RefIsValid(p, ref) THEN "released" ELSE "nothing"
Counted(p, ref) == IF RefIsValid(p, ref) THEN "counted" ELSE "uncounted"

\* -------------------------------------------------------------- the state
Init ==
    /\ m_data = << >>
    /\ m_generations = << >>
    /\ m_alive = << >>
    /\ m_refCounts = << >>
    /\ m_onDestroyCallbacks = << >>
    /\ m_freeList = << >>
    /\ m_count = 0
    /\ m_maxCapacity = 0
    /\ reserved = 0
    /\ refs = [r \in Refs |-> NoRef]
    /\ nextHook = 1
    /\ op = "init"
    /\ ret = "none"
    /\ calls = << >>
    /\ fired = [k \in Hooks |-> 0]
    /\ visits = << >>
    /\ saved = Invalid
    /\ fate = "none"
    /\ cleared = FALSE
    /\ weak = [exists |-> FALSE, m_handle |-> Invalid, m_slot |-> NullSlot]
    /\ expired = FALSE
    /\ asserted = TRUE
    /\ lastRemoved = << >>
    /\ ops = 0

CallsOf(log, k) == Cardinality({n \in 1..Len(log) : log[n].hook = k})

\* The members of the pool, the SlotRefs and the record of the operation.
CommitState(p, newRefs, name, outcome) ==
    /\ ops < MaxOps
    /\ ops' = ops + 1
    /\ op' = name
    /\ ret' = outcome
    /\ m_data' = p.data
    /\ m_generations' = p.generations
    /\ m_alive' = p.alive
    /\ m_refCounts' = p.refCounts
    /\ m_onDestroyCallbacks' = p.callbacks
    /\ m_freeList' = p.freeList
    /\ m_count' = p.count
    /\ m_maxCapacity' = p.maxCapacity
    /\ reserved' = p.reserved
    /\ refs' = newRefs
    /\ calls' = p.calls
    /\ visits' = p.visits
    /\ asserted' = (asserted /\ p.asserted)
    /\ lastRemoved' = [i \in 1..Len(p.data) |->
                          IF \E h \in p.removed : h.index = i - 1
                          THEN {h.generation : h \in {g \in p.removed : g.index = i - 1}}
                          ELSE IF i <= Len(lastRemoved) THEN lastRemoved[i] ELSE {}]
    /\ fired' = [k \in Hooks |-> fired[k] + CallsOf(p.calls, k)]

\* The pool p and the SlotRefs newRefs an operation leaves behind.
CommitPool(p, newRefs, name, outcome) ==
    /\ CommitState(p, newRefs, name, outcome)
    /\ weak' = weak
    /\ expired' = (expired \/ (weak.m_slot = ThePool /\ weak.m_handle \in p.removed))

Commit(p, newRefs, name, outcome) ==
    /\ CommitPool(p, newRefs, name, outcome)
    /\ saved' = saved
    /\ fate' = IF fate = "held" /\ saved \in p.removed THEN "removed" ELSE fate

\* ------------------------------------------------------------ the actions
\* A declaration introduces the client's next SlotRef variable: the variables
\* are interchangeable, so a new object takes the first unused one.
IsFresh(r) == ~refs[r].exists /\ \A q \in Refs : q < r => refs[q].exists

\* The pool only stores and returns elements, so the element of a Create is
\* one of those stored or the first value not stored.
Stored == {m_data[i] : i \in 1..Len(m_data)}
Elements == {v \in Values : \A w \in Values : w < v => w \in Stored}

\* auto r = slot.Create(T{v});
Create(r, v) ==
    /\ IsFresh(r)
    /\ CanCreate(Pool) =>
         (m_freeList # << >> => m_generations[Head(m_freeList) + 1] <= MaxGen)
    /\ LET c == PoolCreate(Pool, v)
       IN Commit(c.pool, [refs EXCEPT ![r] = BoundRef(c.handle, c.slot)], "Create",
                 IF c.slot = NullSlot THEN "empty" ELSE "valid")
    /\ UNCHANGED <<nextHook, cleared>>

\* SlotRef r;
DefaultConstruct(r) ==
    /\ IsFresh(r)
    /\ Commit(Pool, [refs EXCEPT ![r] = EmptyRef], "DefaultConstruct", "none")
    /\ UNCHANGED <<nextHook, cleared>>

\* SlotRef r(other);
CopyConstruct(r, other) ==
    /\ IsFresh(r)
    /\ refs[other].exists
    /\ LET new == CopyRef(refs[other])
       IN Commit(CopyAddRef(Pool, new), [refs EXCEPT ![r] = new], "CopyConstruct",
                 Counted(Pool, new))
    /\ UNCHANGED <<nextHook, cleared>>

\* r = other;
CopyAssign(r, other) ==
    /\ refs[r].exists
    /\ refs[other].exists
    /\ IF r # other
       THEN LET p1 == Release(Pool, refs[r])
                new == CopyRef(refs[other])
            IN Commit(CopyAddRef(p1, new), [refs EXCEPT ![r] = new], "CopyAssign",
                      Counted(p1, new))
       ELSE Commit(Pool, refs, "CopyAssign", "self")
    /\ UNCHANGED <<nextHook, cleared>>

\* SlotRef r(std::move(other));
MoveConstruct(r, other) ==
    /\ IsFresh(r)
    /\ refs[other].exists
    /\ Commit(Pool, [refs EXCEPT ![r] = MoveRef(refs[other]),
                                 ![other] = MovedFrom(refs[other])],
              "MoveConstruct", "none")
    /\ UNCHANGED <<nextHook, cleared>>

\* r = std::move(other);
MoveAssign(r, other) ==
    /\ refs[r].exists
    /\ refs[other].exists
    /\ IF r # other
       THEN Commit(Release(Pool, refs[r]),
                   [refs EXCEPT ![r] = MoveRef(refs[other]),
                                ![other] = MovedFrom(refs[other])],
                   "MoveAssign", Released(Pool, refs[r]))
       ELSE Commit(Pool, refs, "MoveAssign", "self")
    /\ UNCHANGED <<nextHook, cleared>>

\* r.Reset();
Reset(r) ==
    /\ refs[r].exists
    /\ Commit(Release(Pool, refs[r]), [refs EXCEPT ![r] = EmptyRef], "Reset",
              Released(Pool, refs[r]))
    /\ UNCHANGED <<nextHook, cleared>>

\* r = nullptr;
AssignNullptr(r) ==
    /\ refs[r].exists
    /\ Commit(Release(Pool, refs[r]), [refs EXCEPT ![r] = EmptyRef], "AssignNullptr",
              Released(Pool, refs[r]))
    /\ UNCHANGED <<nextHook, cleared>>

\* r goes out of scope: ~SlotRef()
Destroy(r) ==
    /\ refs[r].exists
    /\ Commit(Release(Pool, refs[r]), [refs EXCEPT ![r] = NoRef], "Destroy",
              Released(Pool, refs[r]))
    /\ UNCHANGED <<nextHook, cleared>>

\* r.SetOnDestroy(callable): every call hands over a callable of its own.
SetOnDestroy(r) ==
    /\ refs[r].exists
    /\ nextHook <= MaxHooks
    /\ Commit(IF refs[r].m_slot # NullSlot /\ IsValidHandle(Pool, refs[r].m_handle)
              THEN SetOnDestroyCallback(Pool, refs[r].m_handle, nextHook)
              ELSE Pool,
              refs, "SetOnDestroy", "none")
    /\ nextHook' = nextHook + 1
    /\ UNCHANGED cleared

\* r.ClearOnDestroy();
ClearOnDestroy(r) ==
    /\ refs[r].exists
    /\ Commit(IF refs[r].m_slot # NullSlot /\ IsValidHandle(Pool, refs[r].m_handle)
              THEN ClearOnDestroyCallback(Pool, refs[r].m_handle)
              ELSE Pool,
              refs, "ClearOnDestroy", "none")
    /\ UNCHANGED <<nextHook, cleared>>

\* slot.SetMaxCapacity(n);
SetMaxCapacity(n) ==
    /\ Commit([Pool EXCEPT !.maxCapacity = n], refs, "SetMaxCapacity", "none")
    /\ UNCHANGED <<nextHook, cleared>>

\* slot.Reserve(n);
Reserve(n) ==
    /\ Commit(PoolReserve(Pool, n), refs, "Reserve", "none")
    /\ UNCHANGED <<nextHook, cleared>>

\* slot.ShrinkToFit();
ShrinkToFit ==
    /\ Commit(PoolShrinkToFit(Pool), refs, "ShrinkToFit",
              IF NewSize(Pool, Len(m_data)) # Len(m_data) THEN "shrunk" ELSE "unchanged")
    /\ UNCHANGED <<nextHook, cleared>>

\* slot.Clear();
Clear ==
    /\ CommitPool(PoolClear(Pool), refs, "Clear", "none")
    /\ saved' = saved
    /\ fate' = IF fate = "held" /\ IsValidHandle(Pool, saved) THEN "wiped" ELSE fate
    /\ cleared' = TRUE
    /\ UNCHANGED nextHook

\* h = r.GetHandle(); of a SlotRef that is valid at that moment
GetHandle(r) ==
    /\ refs[r].exists
    /\ RefIsValid(Pool, refs[r])
    /\ CommitPool(Pool, refs, "GetHandle", "none")
    /\ saved' = refs[r].m_handle
    /\ fate' = "held"
    /\ UNCHANGED <<nextHook, cleared>>

Next ==
    \/ \E r \in Refs, v \in Elements : Create(r, v)
    \/ \E r \in Refs : DefaultConstruct(r)
    \/ \E r, other \in Refs : CopyConstruct(r, other)
    \/ \E r, other \in Refs : CopyAssign(r, other)
    \/ \E r, other \in Refs : MoveConstruct(r, other)
    \/ \E r, other \in Refs : MoveAssign(r, other)
    \/ \E r \in Refs : Reset(r)
    \/ \E r \in Refs : AssignNullptr(r)
    \/ \E r \in Refs : Destroy(r)
    \/ \E r \in Refs : SetOnDestroy(r)
    \/ \E r \in Refs : ClearOnDestroy(r)
    \/ \E n \in 0..MaxCapArg : SetMaxCapacity(n)
    \/ \E n \in 0..MaxCapArg : Reserve(n)
    \/ ShrinkToFit
    \/ Clear
    \/ \E r \in Refs : GetHandle(r)

Spec == Init /\ [][Next]_vars

\* ------------------------------------------- calls with an invalid handle
\* The handles a caller can pass: every index of the pool and the first one
\* past its end, with every generation, and SlotHandle::Invalid().
Handles == {Handle(i, g) : i \in 0..Len(m_data), g \in 0..(MaxGen + 1)} \cup {Invalid}

\* slot.AddRef(h) by a friend of the pool, h a handle that does not validate
CallAddRef(h) ==
    /\ ~IsValidHandle(Pool, h)
    /\ Commit(AddRef(Pool, h), refs, "AddRef", "none")
    /\ UNCHANGED <<nextHook, cleared>>

\* slot.ReleaseRef(h)
CallReleaseRef(h) ==
    /\ ~IsValidHandle(Pool, h)
    /\ Commit(ReleaseRef(Pool, h), refs, "ReleaseRef", "none")
    /\ UNCHANGED <<nextHook, cleared>>

\* slot.SetOnDestroyCallback(h, callable)
CallSetOnDestroyCallback(h) ==
    /\ ~IsValidHandle(Pool, h)
    /\ nextHook <= MaxHooks
    /\ Commit(SetOnDestroyCallback(Pool, h, nextHook), refs, "SetOnDestroyCallback", "none")
    /\ nextHook' = nextHook + 1
    /\ UNCHANGED cleared

\* slot.ClearOnDestroyCallback(h)
CallClearOnDestroyCallback(h) ==
    /\ ~IsValidHandle(Pool, h)
    /\ Commit(ClearOnDestroyCallback(Pool, h), refs, "ClearOnDestroyCallback", "none")
    /\ UNCHANGED <<nextHook, cleared>>

NextAccess ==
    \/ Next
    \/ \E h \in Handles : CallAddRef(h)
    \/ \E h \in Handles : CallReleaseRef(h)
    \/ \E h \in Handles : CallSetOnDestroyCallback(h)
    \/ \E h \in Handles : CallClearOnDestroyCallback(h)

SpecAccess == Init /\ [][NextAccess]_vars

\* ------------------------------------------------------------- iteration
\* slot.ForEach([](SlotHandle h, T& e) { ... });
ForEach ==
    /\ Commit(PoolForEach(Pool), refs, "ForEach", "none")
    /\ UNCHANGED <<nextHook, cleared>>

NextForEach ==
    \/ Next
    \/ ForEach

SpecForEach == Init /\ [][NextForEach]_vars

\* -------------------------------------------------------- weak references
\* auto w = r.GetWeak();
GetWeak(r) ==
    /\ refs[r].exists
    /\ ~weak.exists
    /\ CommitState(Pool, refs, "GetWeak", "none")
    /\ weak' = WeakOf(refs[r])
    /\ expired' = FALSE
    /\ UNCHANGED <<saved, fate, nextHook, cleared>>

\* auto r = w.upgrade();
UpgradeWeak(r) ==
    /\ weak.exists
    /\ IsFresh(r)
    /\ LET u == Upgrade(Pool, weak)
       IN Commit(u.pool, IF u.ref.exists THEN [refs EXCEPT ![r] = u.ref] ELSE refs,
                 "Upgrade", IF u.ref.exists THEN "bound" ELSE "nothing")
    /\ UNCHANGED <<nextHook, cleared>>

NextWeak ==
    \/ Next
    \/ \E r \in Refs : GetWeak(r)
    \/ \E r \in Refs : UpgradeWeak(r)

SpecWeak == Init /\ [][NextWeak]_vars

TypeOK ==
    /\ Len(m_generations) = Len(m_data)
    /\ Len(m_alive) = Len(m_data)
    /\ Len(m_refCounts) = Len(m_data)
    /\ Len(m_onDestroyCallbacks) = Len(m_data)
    /\ Len(m_data) <= NumRefs
    /\ \A i \in 1..Len(m_data) : m_generations[i] \in 0..(MaxGen + 1)

\* ------------------------------------------------------------ the claims
\* The SlotRefs of the client that hold handle h of the pool.
RefsIn(rs, h) == {q \in Refs : rs[q].exists /\ rs[q].m_slot = ThePool /\ rs[q].m_handle = h}
RefsTo(h) == RefsIn(refs, h)

\* C1: once a handle issued by Create has become invalid because its slot was
\* removed, it is never valid again, whatever sequence of Create, copy, move,
\* Reset, SetMaxCapacity, Reserve and ShrinkToFit follows (no Clear).
C1_GenerationSafety ==
    (~cleared /\ fate = "removed") => ~IsValidHandle(Pool, saved)

\* C2: a handle that was valid just before Clear() is invalid in every later
\* state, also after any number of subsequent Create calls.
C2_ClearInvalidatesForever ==
    fate = "wiped" => ~IsValidHandle(Pool, saved)

\* C3: as long as the pool is only used through Create, copies, moves and
\* drops, UseCount() of every valid SlotRef equals the number of SlotRefs that
\* hold its handle (n copies made, k dropped: n - k), and once no SlotRef holds
\* a handle obtained beforehand that handle is invalid.
C3_RefCountAccounting ==
    ~cleared =>
        /\ \A r \in Refs :
              (refs[r].exists /\ RefIsValid(Pool, refs[r]))
                  => UseCount(Pool, refs[r]) = Cardinality(RefsTo(refs[r].m_handle))
        /\ (fate # "none" /\ RefsTo(saved) = {}) => ~IsValidHandle(Pool, saved)

\* C3 witness: a slot was removed by its last drop, and another slot is shared
\* by two SlotRefs.
C3_Witness ==
    /\ ~cleared
    /\ fate = "removed"
    /\ ~IsValidHandle(Pool, saved)
    /\ \E r \in Refs : refs[r].exists /\ UseCount(Pool, refs[r]) = 2

\* What C4 says of one operation.
C4_Step ==
    /\ \A k \in Hooks : fired'[k] <= 1
    /\ ~cleared' =>
         /\ \A n \in 1..Len(calls') :
               LET c == calls'[n]
                   h == Handle(c.index, c.generation)
               IN /\ c.alive
                  /\ ~c.inFreeList
                  /\ RefsIn(refs, h) # {}
                  /\ RefsIn(refs', h) = {}
         /\ \A i \in 0..(Len(m_data) - 1) :
               LET k == m_onDestroyCallbacks[i + 1]
                   h == Handle(i, m_generations[i + 1])
               IN (m_alive[i + 1] /\ k # NoCallback) =>
                     IF RefsIn(refs', h) # {}
                     THEN CallsOf(calls', k) = 0 /\ fired'[k] = 0
                     ELSE CallsOf(calls', k) = 1 /\ fired'[k] = 1

\* C4: while the pool is used through Create, copies, moves and drops, a
\* destroy hook set on a slot is not invoked while a SlotRef to the slot
\* remains; the operation that drops the last SlotRef invokes it exactly once,
\* while the slot is still alive and not yet on the free list; no callable is
\* ever invoked a second time, also after the index was recycled.
C4_HookExactlyOnceOnLastDrop == [][C4_Step]_vars

\* C4 witness: a hook has run, and the index of its slot has been recycled by
\* a later Create.
C4_Witness ==
    /\ ~cleared
    /\ op = "Create"
    /\ \E k \in Hooks : fired[k] = 1
    /\ \E i \in 1..Len(m_data) : m_alive[i] /\ m_generations[i] >= 1

\* What C5 says of a Clear() step.
C5_Step ==
    LET S == {i \in 0..(Len(m_data) - 1) :
                 m_alive[i + 1] /\ m_onDestroyCallbacks[i + 1] # NoCallback}
    IN /\ Len(calls') = Cardinality(S)
       /\ \A n \in 1..Len(calls') :
             /\ calls'[n].index \in S
             /\ calls'[n].hook = m_onDestroyCallbacks[calls'[n].index + 1]
             /\ calls'[n].alive
       /\ \A n, m \in 1..Len(calls') : n < m => calls'[n].index < calls'[m].index
       /\ \A k \in Hooks :
             fired'[k] = fired[k] + (IF \E i \in S : m_onDestroyCallbacks[i + 1] = k
                                     THEN 1 ELSE 0)
       /\ m_count' = 0
       /\ Len(m_data') = 0
       /\ m_freeList' = << >>

\* C5: Clear() invokes the destroy hook of each alive slot that has one exactly
\* once, in increasing index order, invokes no hook of a dead slot, and leaves
\* Count() = 0, Capacity() = 0 and an empty free list.
C5_ClearFiresHooksInOrder == [][op' = "Clear" => C5_Step]_vars

\* C5 witness: Clear() has just invoked the hooks of two alive slots.
C5_Witness ==
    /\ op = "Clear"
    /\ Len(calls) = 2
    /\ calls[1].index < calls[2].index
    /\ m_count = 0
    /\ Len(m_data) = 0

\* What C6 says of a step Create(r, v).
C6_Step(r) ==
    /\ (m_maxCapacity # 0 /\ m_count >= m_maxCapacity) =>
          /\ refs' = [refs EXCEPT ![r] = EmptyRef]
          /\ ~RefIsValid(Pool', refs'[r])
          /\ poolVars' = poolVars
          /\ calls' = << >>
    /\ (m_maxCapacity # 0 /\ m_count' > m_count) => m_count' <= m_maxCapacity

C7_Step ==
    LET A == {i \in 0..(Len(m_data) - 1) : m_alive[i + 1]}
        top == IF A = {} THEN 0 ELSE (CHOOSE i \in A : \A j \in A : j <= i) + 1
    IN /\ Capacity(Pool') = top
       /\ \A i \in A :
             LET h == Handle(i, m_generations[i + 1])
             IN /\ IsValidHandle(Pool', h)
                /\ GetRefCount(Pool', h) = m_refCounts[i + 1]
                /\ Get(Pool', h) = m_data[i + 1]
       /\ Count(Pool') = m_count
       /\ refs' = refs
       /\ (Len(m_data) = 0 \/ m_alive[Len(m_data)]) => poolVars' = poolVars

\* C7: after ShrinkToFit, Capacity() is one plus the highest alive index (0 if
\* no slot is alive), every handle valid before is still valid with the same
\* ref-count and element, Count() is unchanged, and nothing changes at all if
\* the last slot was alive or the pool was empty.
C7_ShrinkPreservesLiveHandles == [][op' = "ShrinkToFit" => C7_Step]_vars

\* C7 witness: ShrinkToFit has just truncated trailing dead slots below which a
\* slot is alive.
C7_Witness ==
    /\ op = "ShrinkToFit"
    /\ ret = "shrunk"
    /\ m_count >= 1
    /\ Len(m_data) >= 1
    /\ m_alive[Len(m_data)]

\* C8: copy-constructing or copy-assigning from a SlotRef that is not valid
\* (empty, or holding a handle that no longer validates) yields the empty
\* SlotRef (null pool, SlotHandle::Invalid()), and the construction changes no
\* ref-count.
C8_CopyOfInvalidIsEmpty ==
    [][\A r, other \in Refs :
          (/\ CopyConstruct(r, other) \/ (r # other /\ CopyAssign(r, other))
           /\ ~RefIsValid(Pool, refs[other]))
             => /\ refs'[r] = EmptyRef
                /\ CopyConstruct(r, other) => m_refCounts' = m_refCounts]_vars

\* What the move operations do to the ref-count of the moved slot.
C9_MovedCountKept(other) ==
    GetRefCount(Pool', refs[other].m_handle) = GetRefCount(Pool, refs[other].m_handle)

C9_Transferred(r, other) ==
    /\ refs'[r] = BoundRef(refs[other].m_handle, refs[other].m_slot)
    /\ refs'[other] = EmptyRef

\* C9 as stated: a move (construction, or assignment between two SlotRefs) from
\* a bound SlotRef transfers pool pointer and handle, leaves the ref-count of
\* the moved slot unchanged and the moved-from SlotRef empty.
C9_MoveKeepsCount ==
    [][\A r, other \in Refs :
          (/\ MoveConstruct(r, other) \/ (r # other /\ MoveAssign(r, other))
           /\ refs[other].m_slot # NullSlot)
             => C9_Transferred(r, other) /\ C9_MovedCountKept(other)]_vars

\* C9 amended: move construction, and move assignment between two distinct
\* SlotRefs, transfer pool pointer and handle and leave the moved-from SlotRef
\* empty; the ref-count of the moved slot is unchanged unless the destination of
\* a move assignment was itself a valid reference to that slot, in which case
\* it drops by exactly one; destroying or resetting an empty SlotRef changes
\* nothing in the pool.
C9_MoveAmended ==
    [][/\ \A r, other \in Refs :
             (/\ MoveConstruct(r, other) \/ (r # other /\ MoveAssign(r, other))
              /\ refs[other].m_slot # NullSlot)
                => /\ C9_Transferred(r, other)
                   /\ IF /\ refs[r].exists
                         /\ RefIsValid(Pool, refs[r])
                         /\ refs[r].m_handle = refs[other].m_handle
                      THEN GetRefCount(Pool', refs[other].m_handle)
                              = GetRefCount(Pool, refs[other].m_handle) - 1
                      ELSE C9_MovedCountKept(other)
       /\ \A r \in Refs :
             (/\ Reset(r) \/ AssignNullptr(r) \/ Destroy(r)
              /\ refs[r] = EmptyRef)
                => (poolVars' = poolVars /\ calls' = << >>)]_vars

\* C9 witness: a move assignment onto a SlotRef that referenced the same slot
\* has left one reference to it.
C9_Witness ==
    /\ op = "MoveAssign"
    /\ ret = "released"
    /\ ~cleared
    /\ Len(m_data) = 1
    /\ m_count = 1
    /\ \E r \in Refs : refs[r].exists /\ UseCount(Pool, refs[r]) = 1
    /\ \E o \in Refs : refs[o] = EmptyRef

\* What C10 says of a step Reset(r) or r = nullptr.
C10_Step(r) ==
    /\ refs' = [refs EXCEPT ![r] = EmptyRef]
    /\ IF RefIsValid(Pool, refs[r])
       THEN LET h == refs[r].m_handle
                i == h.index
            IN /\ Len(m_data') = Len(m_data)
               /\ \A j \in 0..(Len(m_data) - 1) :
                     j # i => /\ m_refCounts'[j + 1] = m_refCounts[j + 1]
                              /\ m_alive'[j + 1] = m_alive[j + 1]
               /\ IF m_refCounts[i + 1] = 1
                  THEN /\ ~m_alive'[i + 1]
                       /\ ~IsValidHandle(Pool', h)
                       /\ m_count' = m_count - 1
                  ELSE /\ m_refCounts'[i + 1] = m_refCounts[i + 1] - 1
                       /\ IsValidHandle(Pool', h)
                       /\ m_count' = m_count
       ELSE poolVars' = poolVars /\ calls' = << >>

\* C10: Reset (and assignment of nullptr) on a valid SlotRef decrements the
\* slot's ref-count by exactly one, removes the slot iff the count reaches zero
\* and leaves the SlotRef empty; a second Reset, or the destructor after a
\* Reset, changes no ref-count and removes no slot.
C10_ResetReleasesOnce ==
    [][/\ \A r \in Refs : (Reset(r) \/ AssignNullptr(r)) => C10_Step(r)
       /\ \A r \in Refs :
             (Destroy(r) /\ refs[r] = EmptyRef) => (poolVars' = poolVars /\ calls' = << >>)]_vars

\* C10 witness: a Reset has just lowered the ref-count of a slot from two to
\* one, leaving the reset SlotRef empty.
C10_Witness ==
    /\ op = "Reset"
    /\ ret = "released"
    /\ ~cleared
    /\ Len(m_data) = 1
    /\ m_count = 1
    /\ \E r \in Refs : refs[r].exists /\ UseCount(Pool, refs[r]) = 1
    /\ \E o \in Refs : refs[o] = EmptyRef

\* What the release of an assignment does to the slot the target r held.
C11_Released(r) ==
    LET h == refs[r].m_handle
        i == h.index
    IN IF m_refCounts[i + 1] = 1
       THEN ~IsValidHandle(Pool', h) /\ ~m_alive'[i + 1]
       ELSE IsValidHandle(Pool', h) /\ m_refCounts'[i + 1] = m_refCounts[i + 1] - 1

C11_Kept(r) ==
    LET h == refs[r].m_handle
    IN IsValidHandle(Pool', h) /\ GetRefCount(Pool', h) = GetRefCount(Pool, h)

C11_SameSlot(r, other) ==
    refs[other].m_slot = refs[r].m_slot /\ refs[other].m_handle = refs[r].m_handle

C11_Step(r, other) ==
    /\ (r # other /\ RefIsValid(Pool, refs[r]) /\ CopyAssign(r, other)) =>
          /\ refs'[r] = BoundRef(refs[other].m_handle, refs[other].m_slot)
          /\ IF C11_SameSlot(r, other) THEN C11_Kept(r) ELSE C11_Released(r)
    /\ (r # other /\ RefIsValid(Pool, refs[r]) /\ MoveAssign(r, other)) =>
          /\ refs'[r] = BoundRef(refs[other].m_handle, refs[other].m_slot)
          /\ C11_Released(r)
    /\ (r = other /\ (CopyAssign(r, other) \/ MoveAssign(r, other))) =>
          /\ poolVars' = poolVars
          /\ refs' = refs
          /\ calls' = << >>

\* C11: copy- or move-assigning onto a SlotRef that validates decrements the
\* ref-count of the slot it held, removing that slot iff it was the last
\* reference, and gives it the binding of the source; self-assignment changes
\* nothing; copy-assigning between two SlotRefs of the same slot leaves the
\* slot alive with its ref-count unchanged.
C11_AssignReleasesFirst == [][\A r, other \in Refs : C11_Step(r, other)]_vars

\* What C12 says of a step Create(r, v) that is not refused.
C12_Step(r, v) ==
    LET h == refs'[r].m_handle
    IN /\ ret' = "valid"
       /\ RefIsValid(Pool', refs'[r])
       /\ UseCount(Pool', refs'[r]) = 1
       /\ Count(Pool') = Count(Pool) + 1
       /\ Get(Pool', h) = v
       /\ Len(m_data') >= Len(m_data)
       /\ \A i \in 0..(Len(m_data) - 1) :
             i # h.index => /\ m_alive'[i + 1] = m_alive[i + 1]
                            /\ m_generations'[i + 1] = m_generations[i + 1]
                            /\ m_refCounts'[i + 1] = m_refCounts[i + 1]
                            /\ m_data'[i + 1] = m_data[i + 1]

\* C12: when CanCreate() holds, Create(v) returns a valid SlotRef r with
\* r.UseCount() = 1, Count() is raised by exactly one, Get(r.GetHandle())
\* yields v, and no other slot's liveness, generation, ref-count or element
\* changes.
C12_CreateRoundTrip ==
    [][\A r \in Refs, v \in Values :
          (CanCreate(Pool) /\ Create(r, v)) => C12_Step(r, v)]_vars

\* C12 witness: Create has just reused a freed index next to another alive
\* slot, and the new SlotRef is the only reference to its element.
C12_Witness ==
    /\ op = "Create"
    /\ ret = "valid"
    /\ m_count = 2
    /\ \E r \in Refs :
          /\ refs[r].exists
          /\ refs[r].m_handle.generation = 1
          /\ UseCount(Pool, refs[r]) = 1
          /\ Get(Pool, refs[r].m_handle) # 0

\* A handle that is out of range, points at a dead slot or carries another
\* generation than its slot.
C13_Stale(h) ==
    \/ h.index >= Capacity(Pool)
    \/ ~m_alive[h.index + 1]
    \/ m_generations[h.index + 1] # h.generation

C13_Reads ==
    \A h \in Handles :
        C13_Stale(h) => /\ Get(Pool, h) = 0
                        /\ ~IsValidHandle(Pool, h)
                        /\ GetRefCount(Pool, h) = 0

\* The calls of SpecAccess: each is made with a handle that does not validate.
C13_Calls == {"AddRef", "ReleaseRef", "SetOnDestroyCallback", "ClearOnDestroyCallback"}

C13_Writes ==
    op' \in C13_Calls => /\ poolVars' = poolVars
                         /\ refs' = refs
                         /\ calls' = << >>
                         /\ fired' = fired

\* C13: for every handle that is out of range, points at a dead slot or has a
\* mismatched generation (SlotHandle::Invalid() included), Get returns null,
\* IsValidHandle false and GetRefCount 0, and AddRef, ReleaseRef,
\* SetOnDestroyCallback and ClearOnDestroyCallback leave the whole pool
\* unchanged.
C13_InvalidAccessIsNoOp ==
    /\ []C13_Reads
    /\ [][C13_Writes]_vars

\* C13 witness: ReleaseRef was just called with a handle that does not
\* validate, in a pool whose slot 0 is alive with its second occupant (the
\* handle of the first one is stale) and referenced once.
C13_Witness ==
    /\ op = "ReleaseRef"
    /\ Len(m_data) >= 1
    /\ m_alive[1] /\ m_generations[1] = 1 /\ m_refCounts[1] = 1
    /\ C13_Stale(Handle(0, 0))
    /\ C13_Stale(Handle(Len(m_data), 0))
    /\ C13_Stale(Invalid)

\* What C14 says of a ForEach step.
C14_Step ==
    LET A == {i \in 0..(Len(m_data) - 1) : m_alive[i + 1]}
        n == Len(visits')
    IN /\ \A k \in 1..n :
             LET h == visits'[k].handle
             IN /\ h.index \in A
                /\ IsValidHandle(Pool, h)
                /\ Get(Pool, h) = visits'[k].element
                /\ visits'[k].element = m_data[h.index + 1]
       /\ \A k, l \in 1..n : k < l => visits'[k].handle.index < visits'[l].handle.index
       /\ \A i \in A : Cardinality({k \in 1..n : visits'[k].handle.index = i}) = 1
       /\ n = Count(Pool)
       /\ poolVars' = poolVars

\* C14: ForEach with a callback that removes nothing visits every alive slot
\* exactly once and no dead slot, in strictly increasing index order; the
\* handle passed for each visit validates and yields that slot's element; the
\* number of visits is Count().
C14_ForEachVisitsAlive == [][op' = "ForEach" => C14_Step]_vars

\* C14 witness: ForEach has just skipped the dead slot 0 and visited slot 1.
C14_Witness ==
    /\ op = "ForEach"
    /\ Len(m_data) = 2
    /\ ~m_alive[1]
    /\ Len(visits) = 1
    /\ visits[1].handle.index = 1

\* What C15 says of the steps of SpecWeak.
C15_Step ==
    /\ op' = "GetWeak" => (poolVars' = poolVars /\ refs' = refs)
    /\ \A r \in Refs :
          (Destroy(r) /\ RefIsValid(Pool, refs[r]) /\ UseCount(Pool, refs[r]) = 1)
              => ~IsValidHandle(Pool', refs[r].m_handle)
    /\ \A r \in Refs :
          UpgradeWeak(r) =>
              LET h == weak.m_handle
              IN IF /\ weak.m_slot = ThePool
                    /\ h.index < Capacity(Pool)
                    /\ m_alive[h.index + 1]
                    /\ m_generations[h.index + 1] = h.generation
                 THEN /\ ret' = "bound"
                      /\ refs'[r] = BoundRef(h, ThePool)
                      /\ GetRefCount(Pool', h) = GetRefCount(Pool, h) + 1
                 ELSE /\ ret' = "nothing"
                      /\ refs' = refs
                      /\ poolVars' = poolVars

\* C15: a weak reference changes no ref-count by existing; its upgrade returns
\* a bound SlotRef and raises the slot's ref-count by exactly one iff the slot
\* is still alive with the same generation; once all strong references to its
\* slot were dropped the upgrade returns nothing and changes no state, also
\* when the index has been recycled.
C15_WeakUpgrade ==
    /\ [][C15_Step]_vars
    /\ []((weak.exists /\ expired) =>
             (~Upgrade(Pool, weak).ref.exists /\ Upgrade(Pool, weak).pool = Pool))

\* The SlotRefs whose pool pointer and handle validate against slot i.
C16_Validating(i) ==
    {r \in Refs : refs[r].exists /\ RefIsValid(Pool, refs[r]) /\ refs[r].m_handle.index = i}

\* C16: after every public operation, in any sequence of Create, copy, move,
\* Reset, destruction, Clear and ShrinkToFit, the stored ref-count of every
\* alive slot equals the number of SlotRefs whose pool pointer and handle
\* validate against it.
C16_RefCountEqualsRefs ==
    \A i \in 0..(Len(m_data) - 1) :
        m_alive[i + 1] => m_refCounts[i + 1] = Cardinality(C16_Validating(i))

\* C17: after every public operation Count() equals the number of slots whose
\* alive flag is true.
C17_CountEqualsAlive ==
    Count(Pool) = Cardinality({i \in 1..Len(m_alive) : m_alive[i]})

\* C17 witness: the last reference to one of two elements has just been
\* dropped, leaving one alive and one dead slot.
C17_Witness ==
    /\ op = "Destroy"
    /\ ret = "released"
    /\ Len(m_data) = 2
    /\ Count(Pool) = 1
    /\ \E i \in 1..Len(m_alive) : ~m_alive[i]

C19_NoRefCountUnderflow ==
    /\ \A i \in 1..Len(m_data) : m_alive[i] => m_refCounts[i] >= 1
    /\ \A i \in 1..Len(m_data) : m_refCounts[i] >= 0
    /\ asserted

\* C19 witness: after a Clear, a slot counted once was validated by two
\* SlotRefs; the first destructor removed it, the second found its handle
\* invalid and released nothing.
C19_Witness ==
    /\ cleared
    /\ op = "Destroy"
    /\ ret = "nothing"
    /\ Len(m_data) = 1
    /\ ~m_alive[1]
    /\ m_generations[1] = 1
    /\ m_refCounts[1] = 0
    /\ \A r \in Refs : ~refs[r].exists

\* C20: at the moment a destroy hook runs, in RemoveInternal or in Clear, the
\* hook stored for its slot is already empty, and no callable is invoked a
\* second time.
C20_HookClearedBeforeInvoked ==
    /\ \A n \in 1..Len(calls) : calls[n].stored = NoCallback
    /\ \A k \in Hooks : fired[k] <= 1

\* What C21 says of a step Create(r, v) that is not refused.
C21_Step(r) ==
    LET h == refs'[r].m_handle
    IN /\ IF m_freeList # << >>
          THEN /\ h.index = Head(m_freeList)
               /\ ~m_alive[h.index + 1]
               /\ Len(m_data') = Len(m_data)
               /\ m_freeList' = Tail(m_freeList)
               /\ lastRemoved[h.index + 1] = {h.generation - 1}
          ELSE /\ h = Handle(Capacity(Pool), 0)
               /\ Len(m_data') = Len(m_data) + 1
               /\ m_freeList' = << >>
       /\ m_alive'[h.index + 1]
       /\ m_onDestroyCallbacks'[h.index + 1] = NoCallback

\* The free list is a queue: a removal appends its index at the back,
\* ShrinkToFit keeps the order of the indices it keeps, and no other operation
\* than Create and Clear touches it.
C21_Queue ==
    LET gone == {i \in 0..(Len(m_data) - 1) :
                    m_alive[i + 1] /\ Len(m_data') = Len(m_data) /\ ~m_alive'[i + 1]}
        Kept(i) == i < Len(m_data')
    IN /\ op' \notin {"Create", "Clear", "ShrinkToFit"} =>
             IF gone = {} THEN m_freeList' = m_freeList
             ELSE \E i \in gone : gone = {i} /\ m_freeList' = Append(m_freeList, i)
       /\ op' = "ShrinkToFit" => m_freeList' = SelectSeq(m_freeList, Kept)

\* A hook stored for an alive slot has not been invoked before.
C21_NoOldHook ==
    \A i \in 1..Len(m_data) :
        (m_alive[i] /\ m_onDestroyCallbacks[i] # NoCallback)
            => fired[m_onDestroyCallbacks[i]] = 0

\* C21: with a non-empty free list Create reuses the index freed earliest and
\* appends nothing, and the handle it issues carries a generation one greater
\* than the handle of that index's previous occupant; with an empty free list
\* it appends index Capacity() with generation 0; in both cases the new
\* occupant has no destroy hook, and no hook invoked for an earlier occupant
\* is ever stored for a later one.
C21_SlotRecycling ==
    [][/\ \A r \in Refs, v \in Values :
             (CanCreate(Pool) /\ Create(r, v)) => C21_Step(r)
       /\ C21_Queue
       /\ C21_NoOldHook']_vars

\* C21 witness: of two freed indices, Create has just reused the one freed
\* first (index 1, whose occupant had generation 0) and left the other queued.
C21_Witness ==
    /\ op = "Create"
    /\ ret = "valid"
    /\ Len(m_data) = 2
    /\ m_alive[2]
    /\ m_generations[2] = 1
    /\ lastRemoved[2] = {0}
    /\ ~m_alive[1]
    /\ m_freeList = <<0>>

\* What C22 says of one operation: the generation stored for an index does
\* not decrease, and grows by one exactly when the occupant is removed.
C22_Step ==
    \A i \in 1..Len(m_data) :
        i <= Len(m_data') =>
            m_generations'[i] = IF m_alive[i] /\ ~m_alive'[i]
                                THEN m_generations[i] + 1
                                ELSE m_generations[i]

\* C22: across any sequence of public operations the generation stored for an
\* index never decreases and grows by exactly one per removal of its occupant,
\* so a Create never issues the handle of an occupant that was removed or
\* wiped before: two occupants of an index never receive equal handles.
C22_GenerationMonotonic ==
    [][/\ C22_Step
       /\ \A r \in Refs, v \in Values :
             (Create(r, v) /\ ret' = "valid" /\ fate \in {"removed", "wiped"})
                 => refs'[r].m_handle # saved]_vars

====
